---- MODULE Spec2Model ----
(***************************************************************************)
(* The job processing pipeline of ReelSyntReel: narration synthesis, the   *)
(* ffmpeg render, the thumbnail and the removal of the job directory, as   *)
(* run synchronously by processing.generate_video (called from             *)
(* main.create) and asynchronously by video_tasks.process_video_task.      *)
(*                                                                         *)
(* One job identifier is followed through submissions, runs, kills and     *)
(* re-runs.  The external collaborators (the profanity classifier, the TTS *)
(* provider, ffmpeg, the file system's rmtree) answer as an oracle `env`   *)
(* whose answers are drawn when first asked and kept for a re-run.         *)
(*                                                                         *)
(* Two smaller systems over the same variables follow the properties of    *)
(* the first: SpecJobs, two requests to main.create with their own job     *)
(* identifiers on one disk, and SpecDurations, the durations of the        *)
(* render's inputs and output.                                             *)
(***************************************************************************)
EXTENDS Integers, Sequences, FiniteSets, TLC

VARIABLES
    fs,        \* the job directory user_uploads/<job_id> and its files
    store,     \* the public artifact store: static/reels, static/thumbnails
    env,       \* the answers of the external collaborators to this job
    run,       \* the orchestrator's run: mode, position, outcome
    events,    \* what the current run did, in order: reports, external calls
    admitted   \* fs and store as they were when the current job was admitted

vars == <<fs, store, env, run, events, admitted>>

---------------------------------------------------------------------------
(* Bounds of the model *)

\* narration texts are drawn with up to MaxPad surrounding whitespace characters
MaxPad == 1
\* and with up to MaxOver characters more than MAX_TEXT_LENGTH
MaxOver == 1
\* the inputs of a render last 1 .. MaxDuration seconds
MaxDuration == 3

---------------------------------------------------------------------------
(* Configuration: processing.py 10-15, video_tasks.py 13-18 *)

MAX_TEXT_LENGTH == 1500
DEFAULT_VOICE_ID == "pNInz6obpgDQGcFmaJgB"
CUSTOM_VOICE_ID == "EXAVITQu4vr4xnSDxMaL"

JOB_ID == "job1"
\* A path is a sequence of segments, a segment a sequence of string parts:
\* BASE_DIR / "static" / "reels" / f"{job_id}.mp4" is
\* << <<"static">>, <<"reels">>, <<job_id, ".mp4">> >>
USER_UPLOADS == << <<"user_uploads">> >>
STATIC_REELS == << <<"static">>, <<"reels">> >>
STATIC_THUMBNAILS == << <<"static">>, <<"thumbnails">> >>

\* Path / name; pathlib drops a segment that is "."
Slash(dir, name) == IF name = <<".">> THEN dir ELSE Append(dir, name)

Modes == {"sync", "async"}

---------------------------------------------------------------------------
(* Text files.  A text is known by what the pipeline reads of it: `pad`    *)
(* leading or trailing whitespace characters, `core` characters from the   *)
(* first to the last non-whitespace one, and the classifier's verdict.     *)

NoText == [present |-> FALSE, pad |-> 0, core |-> 0, profane |-> FALSE]

CoreLens == {0, 1, MAX_TEXT_LENGTH} \cup (MAX_TEXT_LENGTH + 1 .. MAX_TEXT_LENGTH + MaxOver)

\* the narration texts a form can carry: non-empty strings
FormTexts ==
    { t \in [present : {TRUE}, pad : 0 .. MaxPad, core : CoreLens, profane : BOOLEAN] :
        /\ t.pad + t.core >= 1
        /\ t.profane => t.core = 1
        /\ t.pad > 0 => t.core \in {0, MAX_TEXT_LENGTH} }

\* str.strip(): the surrounding whitespace goes, the core stays
Strip(t) == [t EXCEPT !.pad = 0]

\* len(text)
Len_(t) == t.pad + t.core

\* `not text`
IsEmpty(t) == Len_(t) = 0

\* profanity.contains_profanity(text)
ContainsProfanity(t) == t.profane

\* Voice files: the content is a voice id with `pad` whitespace around it
NoVoice == [present |-> FALSE, pad |-> 0, id |-> ""]

FormVoices ==
    { v \in [present : {TRUE}, pad : 0 .. MaxPad, id : {"", CUSTOM_VOICE_ID}] :
        /\ v.pad + (IF v.id = "" THEN 0 ELSE 1) >= 1
        /\ v.pad > 0 => v.id = "" }

\* voice_id_path.read_text().strip()
StripVoice(v) == v.id

---------------------------------------------------------------------------
(* Files the pipeline produces *)

\* audio.mp3: complete or truncated, synthesized for the current submission
\* or an older one (`cur`), written by the current run or an earlier one (`fresh`)
NoAudio == [present |-> FALSE, complete |-> FALSE, cur |-> FALSE, fresh |-> FALSE]

\* what a render reads of an audio file: not which run wrote it
NoTrack == [present |-> FALSE, complete |-> FALSE, cur |-> FALSE]
Track(a) == [present |-> a.present, complete |-> a.complete, cur |-> a.cur]

\* <job_id>.mp4: what it was rendered from
NoReel == [present |-> FALSE, partial |-> FALSE, cur |-> FALSE, narration |-> NoTrack, music |-> FALSE]
OldReel == [present |-> TRUE, partial |-> FALSE, cur |-> FALSE, narration |-> NoTrack, music |-> FALSE]

\* <job_id>.jpg: a frame of which reel
NoThumb == [present |-> FALSE, partial |-> FALSE, cur |-> FALSE]
OldThumb == [present |-> TRUE, partial |-> FALSE, cur |-> FALSE]

NoDir == [exists |-> FALSE, input |-> FALSE, desc |-> NoText, voice |-> NoVoice,
          music |-> FALSE, audio |-> NoAudio]

EmptyStore == [reel |-> NoReel, thumb |-> NoThumb]

---------------------------------------------------------------------------
(* Exceptions: the type, str(e), and the stderr a CalledProcessError holds *)

NoExc == [type |-> "", msg |-> "", stderr |-> ""]
Exc(type, msg) == [type |-> type, msg |-> msg, stderr |-> ""]

TextTooLongError == Exc("ValueError", "Text exceeds the maximum length of 1500 characters.")
ProfanityError == Exc("ValueError", "Inappropriate content detected in text.")
SpeechFileError == Exc("RuntimeError", "Failed to generate speech file.")
\* what the TTS client raises that text_to_speech_file does not catch
ProviderError == Exc("ConnectError", "All connection attempts failed")
\* subprocess.run(check=True): the tool exits non-zero
CalledProcessError ==
    [type |-> "CalledProcessError",
     msg |-> "Command '['ffmpeg', ...]' returned non-zero exit status 1.",
     stderr |-> "ffmpeg stderr"]
\* subprocess.run: the tool cannot be launched
LaunchError == Exc("FileNotFoundError", "[Errno 2] No such file or directory: 'ffmpeg'")

Raised(x) == x.type # ""

---------------------------------------------------------------------------
(* ffmpeg command lines.  A filter graph string is held parsed: chains     *)
(* separated by ";", each a sequence of filters separated by ",", each     *)
(* filter with its [in] labels, name, arguments and [out] labels.          *)

Filter(ins, name, args, outs) == [ins |-> ins, name |-> name, args |-> args, outs |-> outs]

\* g1 + "," + g2
Comma(g1, g2) ==
    SubSeq(g1, 1, Len(g1) - 1) \o <<g1[Len(g1)] \o g2[1]>> \o Tail(g2)
\* g1 + ";" + g2
Semi(g1, g2) == g1 \o g2
\* "[label]" + g
LabelIn(label, g) ==
    <<  <<[g[1][1] EXCEPT !.ins = <<label>> \o @]>> \o Tail(g[1])  >> \o Tail(g)
\* g + "[label]"
LabelOut(g, label) ==
    LET c == g[Len(g)]
        f == c[Len(c)]
    IN  SubSeq(g, 1, Len(g) - 1)
          \o << SubSeq(c, 1, Len(c) - 1) \o <<[f EXCEPT !.outs = @ \o <<label>>]>> >>

NoCmd == [pre |-> <<>>, inputs |-> <<>>, fopt |-> "", graph |-> <<>>, maps |-> <<>>,
          enc |-> <<>>, out |-> <<>>]

\* processing._create_reel, lines 74-76
video_filter_sync ==
    << << Filter(<<>>, "scale", "1080:1920:force_original_aspect_ratio=decrease", <<>>),
          Filter(<<>>, "pad", "1080:1920:(ow-iw)/2:(oh-ih)/2:black", <<>>) >> >>
\* Mutation of music_only_filter_sync: the music is taken from a third input
music_only_filter_third_input ==
    << << Filter(<<"2:a">>, "volume", "0.3", <<"aout">>) >> >>

music_only_filter_sync ==
    << << Filter(<<"1:a">>, "volume", "0.3", <<"aout">>) >> >>
mixed_audio_filter_sync ==
    << << Filter(<<"1:a">>, "aformat", "fltp", <<>>), Filter(<<>>, "volume", "1.0", <<"a1">>) >>,
       << Filter(<<"2:a">>, "aformat", "fltp", <<>>), Filter(<<>>, "volume", "0.15", <<"a2">>) >>,
       << Filter(<<"a1", "a2">>, "amix", "inputs=2:duration=first", <<"aout">>) >> >>

\* processing._create_reel, lines 56-90: the command for the two existence checks
SyncReelCommand(job_id, has_voiceover, has_music) ==
    LET job_dir == Slash(USER_UPLOADS, <<job_id>>)
        base == [NoCmd EXCEPT
                   !.pre = <<"-f", "concat", "-safe", "0">>,
                   !.inputs = <<Slash(job_dir, <<"input.txt">>)>>
                                \o (IF has_voiceover THEN <<Slash(job_dir, <<"audio.mp3">>)>> ELSE <<>>)
                                \o (IF has_music THEN <<Slash(job_dir, <<"music.*">>)>> ELSE <<>>),
                   !.enc = <<"-c:v", "libx264", "-c:a", "aac", "-r", "30",
                             "-pix_fmt", "yuv420p", "-shortest", "-y">>,
                   !.out = Slash(STATIC_REELS, <<job_id, ".mp4">>)]
    IN  IF has_voiceover /\ has_music THEN
            [base EXCEPT !.fopt = "-filter_complex",
                         !.graph = Comma(video_filter_sync, mixed_audio_filter_sync),
                         !.maps = <<"0:v", "[aout]">>]
        ELSE IF has_voiceover THEN
            [base EXCEPT !.fopt = "-vf", !.graph = video_filter_sync,
                         !.maps = <<"0:v", "1:a">>]
        ELSE IF has_music THEN
            [base EXCEPT !.fopt = "-filter_complex",
                         !.graph = Semi(LabelOut(LabelIn("0:v", video_filter_sync), "vout"),
                                        music_only_filter_sync),
                         !.maps = <<"[vout]", "[aout]">>]
        ELSE
            [base EXCEPT !.fopt = "-vf", !.graph = video_filter_sync, !.maps = <<"0:v">>]

\* video_tasks._create_reel, lines 105-109
video_filter_async ==
    << << Filter(<<>>, "scale", "1080:1920:force_original_aspect_ratio=decrease", <<>>),
          Filter(<<>>, "pad", "1080:1920:(ow-iw)/2:(oh-ih)/2:black", <<>>) >> >>
music_only_filter_async ==
    << << Filter(<<"1:a">>, "volume", "0.3", <<"aout">>) >> >>
\* Mutation of mixed_audio_filter_async: the two gains are exchanged
mixed_audio_filter_swapped ==
    << << Filter(<<"1:a">>, "aformat", "fltp", <<>>), Filter(<<>>, "volume", "0.15", <<"a1">>) >>,
       << Filter(<<"2:a">>, "aformat", "fltp", <<>>), Filter(<<>>, "volume", "1.0", <<"a2">>) >>,
       << Filter(<<"a1", "a2">>, "amix", "inputs=2:duration=first", <<"aout">>) >> >>

mixed_audio_filter_async ==
    << << Filter(<<"1:a">>, "aformat", "fltp", <<>>), Filter(<<>>, "volume", "1.0", <<"a1">>) >>,
       << Filter(<<"2:a">>, "aformat", "fltp", <<>>), Filter(<<>>, "volume", "0.15", <<"a2">>) >>,
       << Filter(<<"a1", "a2">>, "amix", "inputs=2:duration=first", <<"aout">>) >> >>

\* video_tasks._create_reel, lines 86-130
AsyncReelCommand(job_id, has_voiceover, has_music) ==
    LET job_dir == Slash(USER_UPLOADS, <<job_id>>)
        base == [NoCmd EXCEPT
                   !.pre = <<"-f", "concat", "-safe", "0">>,
                   !.inputs = <<Slash(job_dir, <<"input.txt">>)>>
                                \o (IF has_voiceover THEN <<Slash(job_dir, <<"audio.mp3">>)>> ELSE <<>>)
                                \o (IF has_music THEN <<Slash(job_dir, <<"music.*">>)>> ELSE <<>>),
                   !.enc = <<"-c:v", "libx264", "-c:a", "aac", "-r", "30",
                             "-pix_fmt", "yuv420p", "-shortest", "-y">>,
                   !.out = Slash(STATIC_REELS, <<job_id, ".mp4">>)]
    IN  IF has_voiceover /\ has_music THEN
            [base EXCEPT !.fopt = "-filter_complex",
                         !.graph = Comma(video_filter_async, mixed_audio_filter_async),
                         !.maps = <<"0:v", "[aout]">>]
        ELSE IF has_voiceover THEN
            [base EXCEPT !.fopt = "-vf", !.graph = video_filter_async,
                         !.maps = <<"0:v", "1:a">>]
        ELSE IF has_music THEN
            [base EXCEPT !.fopt = "-filter_complex",
                         !.graph = Semi(LabelOut(LabelIn("0:v", video_filter_async), "vout"),
                                        music_only_filter_async),
                         !.maps = <<"[vout]", "[aout]">>]
        ELSE
            [base EXCEPT !.fopt = "-vf", !.graph = video_filter_async, !.maps = <<"0:v">>]

\* processing._create_thumbnail 105-109, video_tasks._create_thumbnail 147-151
ThumbnailCommand(job_id) ==
    [NoCmd EXCEPT !.inputs = <<Slash(STATIC_REELS, <<job_id, ".mp4">>)>>,
                  !.enc = <<"-ss", "00:00:01.000", "-vframes", "1", "-y">>,
                  !.out = Slash(STATIC_THUMBNAILS, <<job_id, ".jpg">>)]

---------------------------------------------------------------------------
(* External collaborators.  env.tts: the provider streams the whole audio  *)
(* ("ok"), the stream raises ApiError after the file was opened            *)
(* ("api_error"), open() or write() of audio.mp3 raises IOError before     *)
(* anything was written ("io_error"), or the client raises something       *)
(* text_to_speech_file does not catch ("raise").  env.render, env.thumb:   *)
(* ffmpeg exits 0 ("ok"), exits non-zero ("nonzero") or cannot be launched *)
(* ("launch").  env.rm: shutil.rmtree succeeds ("ok") or raises ("fail").  *)

TtsAnswers == {"ok", "api_error", "io_error", "raise"}
ToolAnswers == {"ok", "nonzero", "launch"}
RmAnswers == {"ok", "fail"}
Envs == [tts : TtsAnswers, render : ToolAnswers, thumb : ToolAnswers, rm : RmAnswers]

---------------------------------------------------------------------------
(* Events of a run *)

Ev == [kind |-> "", state |-> "", message |-> "", progress |-> 0,
       text |-> NoText, voice |-> "", cmd |-> NoCmd, result |-> ""]

Emit(w, ev) == [w EXCEPT !.events = Append(@, ev)]

\* the result of a helper: the world after it, what it returned, what it raised
Returns(w, ret) == [w |-> w, ret |-> ret, exc |-> NoExc]
Raises(w, exc) == [w |-> w, ret |-> "", exc |-> exc]

---------------------------------------------------------------------------
(* text_to_audio.text_to_speech_file, lines 18-55 *)

\* Mutation of TextToSpeechFile: an audio.mp3 that is already there is kept
\* instead of being written again
TextToSpeechFileKeepsExisting(w, e, text, voice_id) ==
    LET call(res) == [Ev EXCEPT !.kind = "tts", !.text = text, !.voice = voice_id, !.result = res]
        written(complete) ==
            IF w.fs.audio.present THEN w
            ELSE [w EXCEPT !.fs.audio = [present |-> TRUE, complete |-> complete,
                                         cur |-> TRUE, fresh |-> TRUE]]
    IN  IF e.tts = "raise" THEN Raises(Emit(w, call("raise")), ProviderError)
        ELSE IF e.tts = "io_error" \/ ~w.fs.exists THEN Returns(Emit(w, call("IOError")), "False")
        ELSE IF e.tts = "api_error" THEN Returns(Emit(written(FALSE), call("ApiError")), "False")
        ELSE Returns(Emit(written(TRUE), call("ok")), "True")

TextToSpeechFile(w, e, text, voice_id) ==
    LET call(res) == [Ev EXCEPT !.kind = "tts", !.text = text, !.voice = voice_id, !.result = res]
        written(complete) ==
            [w EXCEPT !.fs.audio = [present |-> TRUE, complete |-> complete,
                                    cur |-> TRUE, fresh |-> TRUE]]
    IN  IF e.tts = "raise" THEN Raises(Emit(w, call("raise")), ProviderError)
        ELSE IF e.tts = "io_error" \/ ~w.fs.exists THEN Returns(Emit(w, call("IOError")), "False")
        ELSE IF e.tts = "api_error" THEN Returns(Emit(written(FALSE), call("ApiError")), "False")
        ELSE Returns(Emit(written(TRUE), call("ok")), "True")

---------------------------------------------------------------------------
(* processing.py: the synchronous pipeline *)

\* Mutation of SyncTooLong: the limit is off by one
SyncTooLongOffByOne(text) == Len_(text) >= MAX_TEXT_LENGTH

\* processing._text_to_audio, line 32
SyncTooLong(text) == Len_(text) > MAX_TEXT_LENGTH

\* processing._text_to_audio, lines 18-50
SyncTextToAudio(w, e, job_id) ==
    IF ~(w.fs.exists /\ w.fs.desc.present) THEN Returns(w, "None")
    ELSE
      LET text == Strip(w.fs.desc) IN
      IF IsEmpty(text) THEN Returns(w, "None")
      ELSE IF SyncTooLong(text) THEN Raises(w, TextTooLongError)
      ELSE IF ContainsProfanity(text) THEN Raises(w, ProfanityError)
      ELSE
        LET voice_id == IF w.fs.voice.present THEN StripVoice(w.fs.voice) ELSE DEFAULT_VOICE_ID
            r == TextToSpeechFile(w, e, text, voice_id)
        IN  IF Raised(r.exc) THEN r
            ELSE IF r.ret = "False" THEN Raises(r.w, SpeechFileError)
            ELSE Returns(r.w, "None")

\* processing._create_reel, lines 53-99
SyncCreateReel(w, e, job_id) ==
    LET has_voiceover == w.fs.exists /\ w.fs.audio.present
        has_music == w.fs.exists /\ w.fs.music
        command == SyncReelCommand(job_id, has_voiceover, has_music)
        call(res) == [Ev EXCEPT !.kind = "render", !.cmd = command, !.result = res]
        reel == [present |-> TRUE, partial |-> FALSE, cur |-> TRUE,
                 narration |-> IF has_voiceover THEN Track(w.fs.audio) ELSE NoTrack,
                 music |-> has_music]
    IN  IF e.render = "launch" THEN Raises(Emit(w, call("launch")), LaunchError)
        ELSE IF e.render = "nonzero" THEN Raises(Emit(w, call("nonzero")), CalledProcessError)
        ELSE Returns(Emit([w EXCEPT !.store.reel = reel], call("ok")), "None")

\* processing._create_thumbnail, lines 102-115
SyncCreateThumbnail(w, e, job_id) ==
    LET command == ThumbnailCommand(job_id)
        call(res) == [Ev EXCEPT !.kind = "thumbnail", !.cmd = command, !.result = res]
        thumb == [present |-> TRUE, partial |-> FALSE, cur |-> w.store.reel.cur]
    IN  IF e.thumb = "launch" THEN Raises(Emit(w, call("launch")), LaunchError)
        ELSE IF e.thumb = "nonzero" THEN Returns(Emit(w, call("nonzero")), "None")
        ELSE Returns(Emit([w EXCEPT !.store.thumb = thumb], call("ok")), "None")

\* Mutation of SyncCleanup: the error of rmtree is not caught and replaces the
\* exception in flight
SyncCleanupPropagates(w, e, job_id) ==
    IF ~w.fs.exists THEN w
    ELSE IF e.rm = "fail"
         THEN [Emit(w, [Ev EXCEPT !.kind = "rmtree", !.result = "fail"])
                 EXCEPT !.run.exc = Exc("PermissionError", "[Errno 13] Permission denied"),
                        !.run.stage = "Cleanup"]
    ELSE Emit([w EXCEPT !.fs = NoDir], [Ev EXCEPT !.kind = "rmtree", !.result = "ok"])

\* processing.generate_video, lines 142-149: the removal of the job directory
SyncCleanup(w, e, job_id) ==
    IF ~w.fs.exists THEN w
    ELSE IF e.rm = "fail" THEN Emit(w, [Ev EXCEPT !.kind = "rmtree", !.result = "fail"])
    ELSE Emit([w EXCEPT !.fs = NoDir], [Ev EXCEPT !.kind = "rmtree", !.result = "ok"])

\* a helper's result taken into the run: the next position, or the handler
Continue(r, stage, next) ==
    IF Raised(r.exc)
    THEN [r.w EXCEPT !.run.pc = "except", !.run.exc = r.exc, !.run.stage = stage]
    ELSE [r.w EXCEPT !.run.pc = next]

\* processing.generate_video, lines 118-149, one step from each position
GenerateVideoStep(w, e) ==
    LET job_id == w.run.job IN
    CASE w.run.pc = "audio" -> Continue(SyncTextToAudio(w, e, job_id), "Audio", "reel")
      [] w.run.pc = "reel" -> Continue(SyncCreateReel(w, e, job_id), "Composition", "thumb")
      [] w.run.pc = "thumb" -> Continue(SyncCreateThumbnail(w, e, job_id), "Thumbnail", "cleanup")
      [] w.run.pc = "except" -> [w EXCEPT !.run.pc = "cleanup"]
      [] w.run.pc = "cleanup" ->
            LET c == SyncCleanup(w, e, job_id) IN
            IF Raised(c.run.exc)
            THEN [Emit(c, [Ev EXCEPT !.kind = "raise", !.message = c.run.exc.msg,
                                     !.result = c.run.exc.type])
                    EXCEPT !.run.pc = "done", !.run.outcome = "Failed"]
            ELSE [Emit(c, [Ev EXCEPT !.kind = "return"])
                    EXCEPT !.run.pc = "done", !.run.outcome = "Succeeded"]
      [] OTHER -> w

---------------------------------------------------------------------------
(* video_tasks.py: the asynchronous pipeline *)

\* video_tasks._text_to_audio, line 62
AsyncTooLong(text) == Len_(text) > MAX_TEXT_LENGTH

\* video_tasks._text_to_audio, lines 47-80
AsyncTextToAudio(w, e, job_id) ==
    IF ~(w.fs.exists /\ w.fs.desc.present) THEN Returns(w, "True")
    ELSE
      LET text == Strip(w.fs.desc) IN
      IF IsEmpty(text) THEN Returns(w, "True")
      ELSE IF AsyncTooLong(text) THEN Raises(w, TextTooLongError)
      ELSE IF ContainsProfanity(text) THEN Raises(w, ProfanityError)
      ELSE
        LET voice_id == IF w.fs.voice.present THEN StripVoice(w.fs.voice) ELSE DEFAULT_VOICE_ID
        IN  TextToSpeechFile(w, e, text, voice_id)

\* video_tasks._create_reel, lines 83-141
AsyncCreateReel(w, e, job_id) ==
    LET has_voiceover == w.fs.exists /\ w.fs.audio.present
        has_music == w.fs.exists /\ w.fs.music
        command == AsyncReelCommand(job_id, has_voiceover, has_music)
        call(res) == [Ev EXCEPT !.kind = "render", !.cmd = command, !.result = res]
        reel == [present |-> TRUE, partial |-> FALSE, cur |-> TRUE,
                 narration |-> IF has_voiceover THEN Track(w.fs.audio) ELSE NoTrack,
                 music |-> has_music]
    IN  IF e.render = "launch" THEN Raises(Emit(w, call("launch")), LaunchError)
        ELSE IF e.render = "nonzero" THEN Raises(Emit(w, call("nonzero")), CalledProcessError)
        ELSE Returns(Emit([w EXCEPT !.store.reel = reel], call("ok")), "True")

\* video_tasks._create_thumbnail, lines 144-159
AsyncCreateThumbnail(w, e, job_id) ==
    LET command == ThumbnailCommand(job_id)
        call(res) == [Ev EXCEPT !.kind = "thumbnail", !.cmd = command, !.result = res]
        thumb == [present |-> TRUE, partial |-> FALSE, cur |-> w.store.reel.cur]
    IN  IF e.thumb = "launch" THEN Raises(Emit(w, call("launch")), LaunchError)
        ELSE IF e.thumb = "nonzero" THEN Returns(Emit(w, call("nonzero")), "False")
        ELSE Returns(Emit([w EXCEPT !.store.thumb = thumb], call("ok")), "True")

\* Mutation of AsyncCleanup: the directory is removed on success only
AsyncCleanupOnSuccessOnly(w, e, job_id) ==
    IF ~w.fs.exists \/ Raised(w.run.exc) THEN w
    ELSE IF e.rm = "fail" THEN Emit(w, [Ev EXCEPT !.kind = "rmtree", !.result = "fail"])
    ELSE Emit([w EXCEPT !.fs = NoDir], [Ev EXCEPT !.kind = "rmtree", !.result = "ok"])

\* video_tasks.process_video_task, lines 188-195 and 210-218
AsyncCleanup(w, e, job_id) ==
    IF ~w.fs.exists THEN w
    ELSE IF e.rm = "fail" THEN Emit(w, [Ev EXCEPT !.kind = "rmtree", !.result = "fail"])
    ELSE Emit([w EXCEPT !.fs = NoDir], [Ev EXCEPT !.kind = "rmtree", !.result = "ok"])

\* Mutation of Milestone: the render and the thumbnail report each other's progress
MilestoneExchanged(pc) ==
    CASE pc = "audio" -> [Ev EXCEPT !.kind = "update_state", !.state = "PROGRESS",
                                    !.message = "Generating audio...", !.progress = 30]
      [] pc = "reel" -> [Ev EXCEPT !.kind = "update_state", !.state = "PROGRESS",
                                   !.message = "Creating video...", !.progress = 90]
      [] pc = "thumb" -> [Ev EXCEPT !.kind = "update_state", !.state = "PROGRESS",
                                    !.message = "Generating thumbnail...", !.progress = 60]

\* self.update_state(state='PROGRESS', meta=...), lines 172-173, 177-178, 182-183
Milestone(pc) ==
    CASE pc = "audio" -> [Ev EXCEPT !.kind = "update_state", !.state = "PROGRESS",
                                    !.message = "Generating audio...", !.progress = 30]
      [] pc = "reel" -> [Ev EXCEPT !.kind = "update_state", !.state = "PROGRESS",
                                   !.message = "Creating video...", !.progress = 60]
      [] pc = "thumb" -> [Ev EXCEPT !.kind = "update_state", !.state = "PROGRESS",
                                    !.message = "Generating thumbnail...", !.progress = 90]

\* self.update_state(state='FAILURE', meta=...), lines 204-208
FailureReport(exc) ==
    [Ev EXCEPT !.kind = "update_state", !.state = "FAILURE",
               !.message = IF exc.msg # "" THEN exc.msg ELSE "An unknown error occurred.",
               !.progress = -1]

\* return {'message': 'Complete', 'progress': 100}, line 198
CompleteResult == [Ev EXCEPT !.kind = "return", !.message = "Complete", !.progress = 100]

\* video_tasks.process_video_task, lines 163-221, one step from each position
ProcessVideoTaskStep(w, e) ==
    LET job_id == w.run.job
        m == Emit(w, Milestone(w.run.pc))
    IN
    CASE w.run.pc = "audio" -> Continue(AsyncTextToAudio(m, e, job_id), "Audio", "reel")
      [] w.run.pc = "reel" -> Continue(AsyncCreateReel(m, e, job_id), "Composition", "thumb")
      [] w.run.pc = "thumb" -> Continue(AsyncCreateThumbnail(m, e, job_id), "Thumbnail", "cleanup")
      [] w.run.pc = "except" -> [Emit(w, FailureReport(w.run.exc)) EXCEPT !.run.pc = "cleanup"]
      [] w.run.pc = "cleanup" ->
            LET c == AsyncCleanup(w, e, job_id) IN
            IF Raised(c.run.exc)
            THEN [Emit(c, [Ev EXCEPT !.kind = "raise", !.message = c.run.exc.msg,
                                     !.result = c.run.exc.type])
                    EXCEPT !.run.pc = "done", !.run.outcome = "Failed"]
            ELSE [Emit(c, CompleteResult)
                    EXCEPT !.run.pc = "done", !.run.outcome = "Succeeded"]
      [] OTHER -> w

---------------------------------------------------------------------------
(* The run as a state machine *)

Step(w, e) ==
    IF w.run.mode = "sync" THEN GenerateVideoStep(w, e) ELSE ProcessVideoTaskStep(w, e)

\* a run has at most five steps: audio, reel, thumb or except, cleanup
RunToEnd(w, e) == Step(Step(Step(Step(Step(w, e), e), e), e), e)

NoRun == [mode |-> "sync", job |-> JOB_ID, pc |-> "idle", outcome |-> "none",
          exc |-> NoExc, stage |-> "", retried |-> FALSE]
StartRun(mode, retried) == [NoRun EXCEPT !.mode = mode, !.pc = "audio", !.retried = retried]

World == [fs |-> fs, store |-> store, events |-> events, run |-> run]

Apply(w) ==
    /\ fs' = w.fs
    /\ store' = w.store
    /\ events' = w.events
    /\ run' = w.run

\* the bundles a submission deposits: every text with and without music, and
\* every voice with the one-character text
Plain == [present |-> TRUE, pad |-> 0, core |-> 1, profane |-> FALSE]
Bundles ==
    { b \in [text : FormTexts \cup {NoText}, voice : FormVoices \cup {NoVoice}, music : BOOLEAN] :
        b.voice # NoVoice => b.text = Plain }

\* No collaborator has been asked yet.  An answer is drawn when a collaborator
\* is first asked and stays the same when a re-run asks again.
NoEnv == [tts |-> "unset", render |-> "unset", thumb |-> "unset", rm |-> "unset"]

\* the full oracles that agree with the answers given so far
Completions(e0) ==
    { e \in Envs : \A f \in DOMAIN e0 : e0[f] # "unset" => e[f] = e0[f] }

\* the step from w asked the collaborator of this kind
Asked(w, after, kind) ==
    \E i \in Len(w.events) + 1 .. Len(after.events) : after.events[i].kind = kind

Init ==
    /\ fs = NoDir
    /\ store = EmptyStore
    /\ env = NoEnv
    /\ run = NoRun
    /\ events = <<>>
    /\ admitted = [fs |-> NoDir, store |-> EmptyStore]

\* main.create, lines 44-99: the job directory is made if it is not there, the
\* media and input.txt are written, then music, desc.txt and voice.txt when the
\* form carries them; what an earlier submission left in the directory stays.
\* Then the job is run: generate_video(job_id), or the task is queued.
\* (The requests create answers with 400, a bad job id or no usable media
\* file, start no run.)
Create ==
    /\ run.pc \in {"idle", "done", "killed"}
    /\ \E mode \in Modes, b \in Bundles :
         LET aged == [fs EXCEPT !.audio = IF @.present THEN [@ EXCEPT !.cur = FALSE, !.fresh = FALSE] ELSE @]
             d == [aged EXCEPT !.exists = TRUE,
                               !.input = TRUE,
                               !.music = IF b.music THEN TRUE ELSE @,
                               !.desc = IF b.text.present THEN b.text ELSE @,
                               !.voice = IF b.voice.present THEN b.voice ELSE @]
             s == [reel |-> IF store.reel.present THEN OldReel ELSE NoReel,
                   thumb |-> IF store.thumb.present THEN OldThumb ELSE NoThumb]
         IN  /\ fs' = d
             /\ store' = s
             /\ run' = StartRun(mode, FALSE)
             /\ admitted' = [fs |-> d, store |-> s]
    /\ env' = NoEnv
    /\ events' = <<>>

\* One step of the run from its position, with the answer of the collaborator
\* that this position may ask
Stage(field, kind, answers) ==
    /\ \E a \in answers :
         LET e == [env EXCEPT ![field] = a]
             after == Step(World, e)
             asked == Asked(World, after, kind)
         IN  /\ env[field] # "unset" => a = env[field]
             /\ (~asked /\ env[field] = "unset") => a = "ok"
             /\ Apply(after)
             /\ env' = IF asked THEN e ELSE env
    /\ UNCHANGED admitted

AudioStage ==
    /\ run.pc = "audio"
    /\ Stage("tts", "tts", TtsAnswers)

ReelStage ==
    /\ run.pc = "reel"
    /\ Stage("render", "render", ToolAnswers)

ThumbnailStage ==
    /\ run.pc = "thumb"
    /\ Stage("thumb", "thumbnail", ToolAnswers)

ExceptHandler ==
    /\ run.pc = "except"
    /\ Apply(Step(World, env))
    /\ UNCHANGED <<env, admitted>>

Cleanup ==
    /\ run.pc = "cleanup"
    /\ Stage("rm", "rmtree", RmAnswers)

\* The process is killed before cleanup (a hard kill by the task queue, a dying
\* server) between two stages
KillBetween ==
    /\ run.pc \in {"audio", "reel", "thumb", "except"}
    /\ run' = [run EXCEPT !.pc = "killed"]
    /\ UNCHANGED <<fs, store, env, events, admitted>>

\* or in the middle of a stage that was writing its output: the file is left
\* truncated, and the collaborator's answer is the one it was giving
KillWriting(field, answers) ==
    /\ \E a \in answers :
         LET e == [env EXCEPT ![field] = a]
             after == Step(World, e)
         IN  /\ env[field] # "unset" => a = env[field]
             /\ after.fs.audio # fs.audio \/ after.store # store
             /\ fs' = IF after.fs.audio # fs.audio
                      THEN [fs EXCEPT !.audio = [after.fs.audio EXCEPT !.complete = FALSE]]
                      ELSE fs
             /\ store' = [reel |-> IF after.store.reel # store.reel
                                   THEN [after.store.reel EXCEPT !.partial = TRUE]
                                   ELSE store.reel,
                          thumb |-> IF after.store.thumb # store.thumb
                                    THEN [after.store.thumb EXCEPT !.partial = TRUE]
                                    ELSE store.thumb]
             /\ env' = e
    /\ run' = [run EXCEPT !.pc = "killed"]
    /\ UNCHANGED <<events, admitted>>

KillInAudio ==
    /\ run.pc = "audio"
    /\ KillWriting("tts", TtsAnswers)

KillInRender ==
    /\ run.pc = "reel"
    /\ KillWriting("render", ToolAnswers)

KillInThumbnail ==
    /\ run.pc = "thumb"
    /\ KillWriting("thumb", ToolAnswers)

\* The job is run again on the directory as the killed run left it
Retry ==
    /\ run.pc = "killed"
    /\ run' = StartRun(run.mode, TRUE)
    /\ events' = <<>>
    /\ fs' = [fs EXCEPT !.audio.fresh = FALSE]
    /\ UNCHANGED <<store, env, admitted>>

Next ==
    \/ Create
    \/ AudioStage
    \/ ReelStage
    \/ ThumbnailStage
    \/ ExceptHandler
    \/ Cleanup
    \/ KillBetween
    \/ KillInAudio
    \/ KillInRender
    \/ KillInThumbnail
    \/ Retry

Spec == Init /\ [][Next]_vars

---------------------------------------------------------------------------
(* What the properties read of a run *)

EventsOf(evs, kinds) == SelectSeq(evs, LAMBDA ev : ev.kind \in kinds)

\* the external invocations of a run, with their arguments and answers
Calls(evs) == EventsOf(evs, {"tts", "render", "thumbnail", "rmtree"})

Happened(kind) == \E i \in 1 .. Len(events) : events[i].kind = kind

HappenedWith(kind, result) ==
    \E i \in 1 .. Len(events) : events[i].kind = kind /\ events[i].result = result

HappenedIn(evs, kind, result) ==
    \E i \in 1 .. Len(evs) : evs[i].kind = kind /\ evs[i].result = result

\* a call of this kind was made and did not answer "ok"
FailedCall(kind) ==
    \E i \in 1 .. Len(events) : events[i].kind = kind /\ events[i].result # "ok"

\* the job as it was admitted, about to be run in the given mode
Admitted(mode) ==
    [fs |-> admitted.fs, store |-> admitted.store, events |-> <<>>,
     run |-> StartRun(mode, FALSE)]

---------------------------------------------------------------------------
(* C1 *)

---------------------------------------------------------------------------
(* C2 *)

\* C2: in both modes, once a stage has failed fatally (moderation rejection,
\* synthesis failure, render exit non-zero or launch failure) no later stage is
\* invoked: no render and no thumbnail command after an audio-stage failure, no
\* thumbnail command after a render failure.
NoStageAfterFatalFailure ==
    /\ (run.stage = "Audio" \/ FailedCall("tts"))
          => ~Happened("render") /\ ~Happened("thumbnail")
    /\ FailedCall("render") => ~Happened("thumbnail")

---------------------------------------------------------------------------
(* C3 *)

\* C3: in both modes, when the synthesizer fails for a non-empty allowed text
\* (text_to_speech_file returns False or raises), the job ends Failed at the
\* audio stage: the render command is not executed and the job never reports
\* success.
SynthesisFailureFailsJob ==
    FailedCall("tts") =>
        /\ ~Happened("render")
        /\ run.outcome # "Succeeded"
        /\ run.pc \in {"except", "cleanup", "done"} => run.stage = "Audio"
        /\ run.pc = "done" => run.outcome = "Failed"

---------------------------------------------------------------------------
(* C4 *)

OtherMode(mode) == IF mode = "sync" THEN "async" ELSE "sync"

\* C4: generate_video and process_video_task, run on the same job directory
\* with the same answers of the TTS provider and of ffmpeg, make the same
\* external invocations with the same arguments and end in the same outcome,
\* failed at the same stage, with the same artifacts and the same directory.
SyncAsyncAgree ==
    (run.pc = "done" /\ ~run.retried) =>
        \A e \in Completions(env) :
            LET other == RunToEnd(Admitted(OtherMode(run.mode)), e)
            IN  /\ Calls(other.events) = Calls(events)
                /\ other.run.outcome = run.outcome
                /\ other.run.stage = run.stage
                /\ other.store = store
                /\ other.fs = fs

---------------------------------------------------------------------------
(* C5 *)

\* C5: in both modes, a failure of the thumbnail invocation after a successful
\* render (non-zero exit or failure to launch) is swallowed: no exception
\* leaves _create_thumbnail, the job Succeeds, <job_id>.mp4 is present and
\* cleanup still runs.
ThumbnailFailureSwallowed ==
    FailedCall("thumbnail") =>
        /\ run.stage # "Thumbnail"
        /\ run.pc = "done" =>
              /\ run.outcome = "Succeeded"
              /\ store.reel.present /\ store.reel.cur
              /\ Happened("rmtree")

---------------------------------------------------------------------------
(* C6 *)

\* the narration text file of the submission is absent, empty or whitespace
NoNarrationText == ~admitted.fs.desc.present \/ IsEmpty(Strip(admitted.fs.desc))

\* the command _create_reel builds in this mode
ReelCommand(mode, has_voiceover, has_music) ==
    IF mode = "sync" THEN SyncReelCommand(JOB_ID, has_voiceover, has_music)
    ELSE AsyncReelCommand(JOB_ID, has_voiceover, has_music)

\* C6: for every job whose narration text file is absent, empty or
\* whitespace-only, in any state of the job directory at the start of the run
\* (a directory left by an earlier run with the same job id included), the
\* synthesizer is never called, the render command is planned without
\* narration, and the job succeeds if the render succeeds (the thumbnail's
\* launch failure aside, which C5 is about).
SilentJobHasNoNarration ==
    NoNarrationText =>
        /\ ~Happened("tts")
        /\ \A i \in 1 .. Len(events) :
              events[i].kind = "render" =>
                  events[i].cmd = ReelCommand(run.mode, FALSE, admitted.fs.music)
        /\ (run.pc = "done" /\ HappenedWith("render", "ok")
              /\ ~HappenedWith("thumbnail", "launch")) => run.outcome = "Succeeded"

---------------------------------------------------------------------------
(* C7 *)

\* the text handed to the moderator: desc.txt read and stripped
NarrationText == Strip(admitted.fs.desc)

\* the audio stage of this run is over
AudioStageOver == run.pc \in {"reel", "thumb", "except", "cleanup", "done"}

\* C7: for every non-empty narration text the synthesizer is called if and only
\* if the text has at most 1500 characters and is not flagged profane (1500 is
\* accepted, 1501 rejected), and every rejection fails the job at the audio
\* stage without any call to the TTS provider.  The text is the one the checks
\* are made on: the content of desc.txt without its surrounding whitespace.
ModerationDecidesSynthesis ==
    (AudioStageOver /\ admitted.fs.desc.present /\ ~IsEmpty(NarrationText)) =>
        LET accepted == Len_(NarrationText) <= MAX_TEXT_LENGTH /\ ~NarrationText.profane
        IN  /\ Happened("tts") <=> accepted
            /\ ~accepted =>
                  /\ run.stage = "Audio"
                  /\ run.exc = IF Len_(NarrationText) > MAX_TEXT_LENGTH
                               THEN TextTooLongError ELSE ProfanityError
                  /\ ~Happened("render")
                  /\ run.pc = "done" => run.outcome = "Failed"

\* a text of exactly 1500 characters went to the synthesizer
ModerationAcceptsAtLimit ==
    /\ AudioStageOver
    /\ Len_(NarrationText) = MAX_TEXT_LENGTH
    /\ Happened("tts")

---------------------------------------------------------------------------
(* C8 *)

\* the graph has a chain in which the filter fed from input label `in` is
\* followed, through unlabelled filters, by volume=<gain> with output label `out`
GainChain(cmd, in, gain, out) ==
    \E c \in 1 .. Len(cmd.graph) :
        \E i \in 1 .. Len(cmd.graph[c]) : \E j \in i .. Len(cmd.graph[c]) :
            /\ cmd.graph[c][i].ins = <<in>>
            /\ \A k \in i + 1 .. j : cmd.graph[c][k].ins = <<>>
            /\ \A k \in i .. j - 1 : cmd.graph[c][k].outs = <<>>
            /\ cmd.graph[c][j] = [cmd.graph[c][j] EXCEPT !.name = "volume", !.args = gain,
                                                         !.outs = <<out>>]

HasFilter(cmd, f) ==
    \E c \in 1 .. Len(cmd.graph) : \E i \in 1 .. Len(cmd.graph[c]) : cmd.graph[c][i] = f

NoAudioFilter(cmd) ==
    \A c \in 1 .. Len(cmd.graph) : \A i \in 1 .. Len(cmd.graph[c]) :
        cmd.graph[c][i].name \in {"scale", "pad"}

JobFile(name) == Slash(Slash(USER_UPLOADS, <<JOB_ID>>), <<name>>)

\* the plan of the table of section 4.3 for the two booleans
PlanOfTable(cmd, hasNarration, hasMusic) ==
    /\ cmd.inputs = <<JobFile("input.txt")>>
                      \o (IF hasNarration THEN <<JobFile("audio.mp3")>> ELSE <<>>)
                      \o (IF hasMusic THEN <<JobFile("music.*")>> ELSE <<>>)
    /\ (hasNarration /\ hasMusic) =>
          /\ GainChain(cmd, "1:a", "1.0", "a1")
          /\ GainChain(cmd, "2:a", "0.15", "a2")
          /\ HasFilter(cmd, Filter(<<"a1", "a2">>, "amix", "inputs=2:duration=first", <<"aout">>))
          /\ Len(cmd.maps) = 2 /\ cmd.maps[2] = "[aout]"
    /\ (hasNarration /\ ~hasMusic) =>
          /\ NoAudioFilter(cmd)
          /\ cmd.maps = <<"0:v", "1:a">>
    /\ (~hasNarration /\ hasMusic) =>
          /\ GainChain(cmd, "1:a", "0.3", "aout")
          /\ Len(cmd.maps) = 2 /\ cmd.maps[2] = "[aout]"
    /\ (~hasNarration /\ ~hasMusic) =>
          /\ NoAudioFilter(cmd)
          /\ cmd.maps = <<"0:v">>

\* C8: for each of the four (hasNarration, hasMusic) combinations _create_reel
\* builds the plan of the table: (true,true) manifest+narration+music,
\* narration gain 1.0 and music gain 0.15 mixed by amix duration=first, audio
\* mapped from the mix; (true,false) narration mapped unfiltered from input 1;
\* (false,true) music is input 1, attenuated to 0.3 and mapped; (false,false)
\* the video stream alone is mapped.  The two booleans decide the plan, and
\* the sync and the async copy build the same one.
PlanIsTheTableOfTheTwoBooleans ==
    /\ \A hasNarration \in BOOLEAN, hasMusic \in BOOLEAN :
          /\ PlanOfTable(SyncReelCommand(JOB_ID, hasNarration, hasMusic), hasNarration, hasMusic)
          /\ PlanOfTable(AsyncReelCommand(JOB_ID, hasNarration, hasMusic), hasNarration, hasMusic)
          /\ SyncReelCommand(JOB_ID, hasNarration, hasMusic)
               = AsyncReelCommand(JOB_ID, hasNarration, hasMusic)
    /\ \A i \in 1 .. Len(events) :
          (events[i].kind = "render" /\ fs.exists) =>
              /\ events[i].cmd = ReelCommand(run.mode, fs.audio.present, fs.music)
              /\ PlanOfTable(events[i].cmd, fs.audio.present, fs.music)

\* a render was run with narration and music
PlanWitness ==
    /\ fs.exists /\ fs.audio.present /\ fs.music
    /\ HappenedWith("render", "ok")

---------------------------------------------------------------------------
(* C9 *)

\* the three milestones of the task, in the order of its stages
Milestones ==
    << [message |-> "Generating audio...", progress |-> 30],
       [message |-> "Creating video...", progress |-> 60],
       [message |-> "Generating thumbnail...", progress |-> 90] >>

\* the progress reports of the run, in order
ProgressReports ==
    SelectSeq(events, LAMBDA ev : ev.kind = "update_state" /\ ev.state = "PROGRESS")

IsTerminal(ev) ==
    \/ ev.kind = "update_state" /\ ev.state = "FAILURE"
    \/ ev.kind \in {"return", "raise"}

\* the stage whose external call this event is
StageOfCall(kind) == CASE kind = "tts" -> 1 [] kind = "render" -> 2 [] kind = "thumbnail" -> 3

\* C9: in every run of process_video_task the status reports come in the order
\* 'Generating audio...' (30), 'Creating video...' (60), 'Generating
\* thumbnail...' (90), each before its stage starts, with strictly increasing
\* progress; {message: Complete, progress: 100} comes only after all three, a
\* failure report carries progress -1 and the error message, and no milestone
\* is emitted after a terminal report.
ProgressReportsInOrder ==
    run.mode = "async" =>
        /\ Len(ProgressReports) <= 3
        /\ \A k \in 1 .. Len(ProgressReports) :
              /\ ProgressReports[k].message = Milestones[k].message
              /\ ProgressReports[k].progress = Milestones[k].progress
              /\ k > 1 => ProgressReports[k].progress > ProgressReports[k - 1].progress
        /\ \A i \in 1 .. Len(events) :
              /\ events[i].kind \in {"tts", "render", "thumbnail"} =>
                    \E j \in 1 .. i - 1 :
                        /\ events[j].kind = "update_state"
                        /\ events[j].progress = Milestones[StageOfCall(events[i].kind)].progress
              /\ events[i] = CompleteResult =>
                    Len(EventsOf(SubSeq(events, 1, i - 1), {"update_state"})) = 3
              /\ events[i].kind = "return" => events[i] = CompleteResult
              /\ (events[i].kind = "update_state" /\ events[i].state = "FAILURE") =>
                    /\ events[i].progress = -1
                    /\ events[i].message = run.exc.msg
                    /\ run.exc.msg # ""
              /\ IsTerminal(events[i]) =>
                    \A j \in i + 1 .. Len(events) :
                        ~(events[j].kind = "update_state" /\ events[j].state = "PROGRESS")
        /\ run.pc \in {"reel", "thumb", "cleanup", "done"} => Len(ProgressReports) >= 1
        /\ (run.pc = "done" /\ run.outcome = "Succeeded") => Happened("return")
        /\ (run.pc = "done" /\ run.outcome = "Failed") =>
              \E i \in 1 .. Len(events) :
                  events[i].kind = "update_state" /\ events[i].state = "FAILURE"

\* a task failed in the render after two milestones and reported the failure
ProgressWitness ==
    /\ run.mode = "async"
    /\ run.pc = "done"
    /\ run.stage = "Composition"
    /\ Len(ProgressReports) = 2
    /\ \E i \in 1 .. Len(events) :
          events[i].kind = "update_state" /\ events[i].state = "FAILURE"

---------------------------------------------------------------------------
(* C10 *)

\* C10: when a run is killed before cleanup and the job is run again on the
\* directory it left, with the same external answers, the re-run makes the
\* calls of every stage again and ends with the outcome and the artifacts
\* <job_id>.mp4 and <job_id>.jpg of a single uninterrupted run.
RerunEqualsUninterruptedRun ==
    (run.retried /\ run.pc = "done") =>
        \A e \in Completions(env) :
            LET alone == RunToEnd(Admitted(run.mode), e)
            IN  /\ alone.run.outcome = run.outcome
                /\ alone.run.stage = run.stage
                /\ alone.run.exc = run.exc
                /\ alone.store = store
                /\ Calls(alone.events) = Calls(events)

\* a re-run after a kill rendered the reel with a complete narration and made
\* the thumbnail
RerunWitness ==
    /\ run.retried /\ run.pc = "done"
    /\ run.outcome = "Succeeded"
    /\ store.reel.cur /\ ~store.reel.partial /\ store.reel.narration.complete
    /\ store.thumb.cur /\ ~store.thumb.partial

---------------------------------------------------------------------------
(* C11 *)

\* what a run tells its caller: status reports, the return value, the exception
Reports(evs) == EventsOf(evs, {"update_state", "return", "raise"})

\* C11: in both modes a failure of the removal of the job directory is never
\* propagated and never changes the outcome already determined: the run ends
\* as it would have ended had rmtree succeeded, a succeeded job Succeeded, a
\* failed job Failed with the original exception and not the cleanup error.
CleanupFailureKeepsOutcome ==
    (run.pc = "done" /\ HappenedWith("rmtree", "fail")) =>
        /\ run.outcome = (IF Raised(run.exc) THEN "Failed" ELSE "Succeeded")
        /\ run.stage \in {"", "Audio", "Composition", "Thumbnail"}
        /\ \A e \in Completions(env) :
              LET clean == RunToEnd(Admitted(run.mode), [e EXCEPT !.rm = "ok"])
              IN  /\ clean.run.outcome = run.outcome
                  /\ clean.run.exc = run.exc
                  /\ clean.run.stage = run.stage
                  /\ Reports(clean.events) = Reports(events)
                  /\ clean.store = store

\* a synchronous job failed in the render, rmtree failed too, and the render's
\* exception is the one raised
CleanupFailureWitness ==
    /\ run.pc = "done" /\ run.mode = "sync"
    /\ HappenedWith("rmtree", "fail")
    /\ fs.exists
    /\ run.outcome = "Failed"
    /\ run.exc = CalledProcessError
    /\ events[Len(events)].kind = "raise"
    /\ events[Len(events)].result = "CalledProcessError"

---------------------------------------------------------------------------
(* C12: two jobs on one disk.  In this system the variables hold: fs, the  *)
(* directory at each job-directory path; store, the artifacts of each job  *)
(* id; run, the run of each of the two requests; events, the set of paths  *)
(* each request touched; admitted, the job ids admitted so far.            *)

\* job ids a client can send in the form field uuid
JobIds == {"", ".", "..", "a/b", "job1", "job2"}

\* the characters of a job id
Chars(job_id) ==
    CASE job_id = "" -> <<>>
      [] job_id = "." -> <<".">>
      [] job_id = ".." -> <<".", ".">>
      [] job_id = "a/b" -> <<"a", "/", "b">>
      [] job_id = "job1" -> <<"j", "o", "b", "1">>
      [] job_id = "job2" -> <<"j", "o", "b", "2">>

\* sub in s
Contains(s, sub) ==
    \E i \in 1 .. Len(s) - Len(sub) + 1 : SubSeq(s, i, i + Len(sub) - 1) = sub

\* main.create, line 49: the request is not answered with 400
PassesAdmission(job_id) ==
    ~(Chars(job_id) = <<>>
        \/ Contains(Chars(job_id), <<".", ".">>)
        \/ Contains(Chars(job_id), <<"/">>))

AdmissibleIds == { id \in JobIds : PassesAdmission(id) }

\* USER_UPLOADS / job_id
JobDirOf(job_id) == Slash(USER_UPLOADS, <<job_id>>)

JobDirs == { JobDirOf(id) : id \in AdmissibleIds }

Requests == {1, 2}

\* path p is dir or lies under it
IsUnder(p, dir) == Len(p) >= Len(dir) /\ SubSeq(p, 1, Len(dir)) = dir

\* shutil.rmtree(dir): the directory goes with everything under it
Rmtree(disk, dir) == [p \in DOMAIN disk |-> IF IsUnder(p, dir) THEN NoDir ELSE disk[p]]

Touch(op, path) == [op |-> op, path |-> path]

\* the paths an external call of a run works on
CallTouches(job_id, ev) ==
    CASE ev.kind = "tts" -> {Touch("write", Slash(JobDirOf(job_id), <<"audio.mp3">>))}
      [] ev.kind \in {"render", "thumbnail"} ->
            {Touch("read", ev.cmd.inputs[i]) : i \in 1 .. Len(ev.cmd.inputs)}
               \cup {Touch("write", ev.cmd.out)}
      [] ev.kind = "rmtree" -> {Touch("rmtree", JobDirOf(job_id))}
      [] OTHER -> {}

\* the paths one step of generate_video works on, from the position pc
StepTouches(job_id, pc, evs) ==
    (IF pc = "audio"
     THEN {Touch("read", Slash(JobDirOf(job_id), <<"desc.txt">>)),
           Touch("read", Slash(JobDirOf(job_id), <<"voice.txt">>))}
     ELSE {})
    \cup (IF pc = "reel"
          THEN {Touch("read", Slash(JobDirOf(job_id), <<"audio.mp3">>)),
                Touch("read", Slash(JobDirOf(job_id), <<"music.*">>))}
          ELSE {})
    \cup (IF pc = "cleanup" THEN {Touch("read", JobDirOf(job_id))} ELSE {})
    \cup UNION { CallTouches(job_id, evs[i]) : i \in 1 .. Len(evs) }

\* the forms of the two requests: with or without a narration text and music
JobBundles == [text : {NoText, Plain}, music : BOOLEAN]

InitJobs ==
    /\ fs = [p \in JobDirs |-> IF p = USER_UPLOADS THEN [NoDir EXCEPT !.exists = TRUE] ELSE NoDir]
    /\ store = [id \in AdmissibleIds |-> EmptyStore]
    /\ env = NoEnv
    /\ run = [r \in Requests |-> NoRun]
    /\ events = {}
    /\ admitted = {}

\* main.create, lines 44-50: a request whose job id fails the check is answered
\* with 400 and nothing is written
Reject ==
    /\ \E r \in Requests, id \in JobIds :
         /\ run[r].pc = "idle"
         /\ ~PassesAdmission(id)
         /\ run' = [run EXCEPT ![r] = [@ EXCEPT !.job = id, !.pc = "rejected"]]
    /\ UNCHANGED <<fs, store, env, events, admitted>>

\* main.create, lines 52-99: the job directory is made (the request fails when
\* the uploads directory is not there), the form's files are written into it
\* and generate_video(job_id) is entered
Submit ==
    /\ \E r \in Requests, id \in AdmissibleIds \ admitted, b \in JobBundles :
         LET dir == JobDirOf(id) IN
         /\ run[r].pc = "idle"
         /\ IF dir # USER_UPLOADS /\ ~fs[USER_UPLOADS].exists
            THEN /\ run' = [run EXCEPT ![r] = [@ EXCEPT !.job = id, !.pc = "rejected"]]
                 /\ events' = events \cup {[request |-> r, touch |-> Touch("mkdir", dir)]}
                 /\ UNCHANGED <<fs, admitted>>
            ELSE /\ fs' = [fs EXCEPT ![dir] = [@ EXCEPT !.exists = TRUE,
                                                        !.input = TRUE,
                                                        !.music = IF b.music THEN TRUE ELSE @,
                                                        !.desc = IF b.text.present THEN b.text ELSE @]]
                 /\ run' = [run EXCEPT ![r] = [StartRun("sync", FALSE) EXCEPT !.job = id]]
                 /\ events' = events \cup
                      {[request |-> r, touch |-> t] :
                          t \in {Touch("mkdir", dir), Touch("write", Slash(dir, <<"input.txt">>))}
                                \cup (IF b.music THEN {Touch("write", Slash(dir, <<"music.*">>))} ELSE {})
                                \cup (IF b.text.present THEN {Touch("write", Slash(dir, <<"desc.txt">>))} ELSE {})}
                 /\ admitted' = admitted \cup {id}
    /\ UNCHANGED <<store, env>>

\* one step of generate_video(job_id) for request r, whatever the collaborators
\* answer, while the other request is wherever it is
JobStep ==
    /\ \E r \in Requests, e \in Envs :
         LET id == run[r].job
             dir == JobDirOf(id)
             w == [fs |-> fs[dir], store |-> store[id], events |-> <<>>, run |-> run[r]]
             after == Step(w, e)
         IN  /\ run[r].pc \in {"audio", "reel", "thumb", "except", "cleanup"}
             /\ run[r].pc # "audio" => e.tts = "ok"
             /\ run[r].pc # "reel" => e.render = "ok"
             /\ run[r].pc # "thumb" => e.thumb = "ok"
             /\ run[r].pc # "cleanup" => e.rm = "ok"
             /\ fs' = IF HappenedIn(after.events, "rmtree", "ok")
                      THEN Rmtree(fs, dir)
                      ELSE [fs EXCEPT ![dir] = after.fs]
             /\ store' = [store EXCEPT ![id] = after.store]
             /\ run' = [run EXCEPT ![r] = after.run]
             /\ events' = events \cup
                  {[request |-> r, touch |-> t] : t \in StepTouches(id, run[r].pc, after.events)}
    /\ UNCHANGED <<env, admitted>>

NextJobs ==
    \/ Reject
    \/ Submit
    \/ JobStep

SpecJobs == InitJobs /\ [][NextJobs]_vars

\* the path is the job's directory, inside it, or one of its two artifacts
OwnPath(job_id, p) ==
    \/ IsUnder(p, JobDirOf(job_id))
    \/ p = Slash(STATIC_REELS, <<job_id, ".mp4">>)
    \/ p = Slash(STATIC_THUMBNAILS, <<job_id, ".jpg">>)

\* C12: for any two jobs with distinct identifiers that both pass the admission
\* check of create, run in any interleaving, no step of one job reads,
\* overwrites or deletes a file of the other job's directory or artifacts:
\* every path a job touches is user_uploads/<its id>/..., <its id>.mp4 or
\* <its id>.jpg, the directory it removes is a proper subdirectory of the
\* uploads root, and so a job's directory and input stay until its own cleanup.
JobsKeepToTheirOwnFiles ==
    /\ \A x \in events :
          /\ OwnPath(run[x.request].job, x.touch.path)
          /\ x.touch.op = "rmtree" =>
                IsUnder(x.touch.path, USER_UPLOADS) /\ x.touch.path # USER_UPLOADS
    /\ \A r \in Requests :
          run[r].pc \in {"audio", "reel", "thumb", "except", "cleanup"} =>
              fs[JobDirOf(run[r].job)].exists /\ fs[JobDirOf(run[r].job)].input

---------------------------------------------------------------------------
(* C13 *)

\* C13: whenever text_to_speech_file fails (returns False or raises), no
\* audio.mp3, empty or truncated, is in the job directory when it returns;
\* audio.mp3 is there after the call only if the complete audio was written.
NoAudioFileAfterFailedSynthesis ==
    /\ FailedCall("tts") => ~fs.audio.present
    /\ (Happened("tts") /\ fs.audio.present) =>
          HappenedWith("tts", "ok") /\ fs.audio.complete

---------------------------------------------------------------------------
(* C14 *)

\* str(e) as the pieces it is put together from.  subprocess.CalledProcessError
\* formats "Command '%s' returned non-zero exit status %d." of cmd and
\* returncode; the other exceptions give their message.
Str(exc) ==
    IF exc.type = "CalledProcessError"
    THEN <<"Command '", "['ffmpeg', ...]", "' returned non-zero exit status ", "1", ".">>
    ELSE <<exc.msg>>

\* main.create, lines 102-104: the answer to a request whose run raised
CreateFailureResponse(exc) ==
    [success |-> FALSE, message |-> <<"Video generation failed: ">> \o Str(exc), status |-> 500]

\* video_tasks.process_video_task, lines 206-207: the 'message' of the FAILURE state
FailureMessage(exc) ==
    IF exc.msg # "" THEN Str(exc) ELSE <<"An unknown error occurred.">>

\* the failure message that reaches the caller of a run in this mode
CallerMessage(mode, exc) ==
    IF mode = "sync" THEN CreateFailureResponse(exc).message ELSE FailureMessage(exc)

\* the piece is in the message
InMessage(piece, message) == \E i \in 1 .. Len(message) : message[i] = piece

\* the fatal failures by class
FailureClasses ==
    [Moderation |-> {TextTooLongError, ProfanityError},
     Synthesis |-> {SpeechFileError, ProviderError},
     Composition |-> {CalledProcessError, LaunchError}]

\* C14: when the render exits non-zero, the failure message reaching the
\* caller (sync: the exception raised by generate_video, put into the HTTP
\* response; async: the 'message' of the FAILURE state) contains the tool's
\* captured stderr, and the messages of moderation, synthesis and composition
\* failures are pairwise distinguishable.
FailureMessageHasDiagnostics ==
    /\ (run.pc = "done" /\ HappenedWith("render", "nonzero")) =>
          /\ run.exc.stderr # ""
          /\ InMessage(run.exc.stderr, CallerMessage(run.mode, run.exc))
    /\ (run.pc = "done" /\ run.mode = "async" /\ run.outcome = "Failed") =>
          \E i \in 1 .. Len(events) :
              events[i] = FailureReport(run.exc) /\ run.exc.msg # ""
    /\ \A mode \in Modes : \A c1 \in DOMAIN FailureClasses, c2 \in DOMAIN FailureClasses :
          c1 # c2 =>
              \A x \in FailureClasses[c1], y \in FailureClasses[c2] :
                  CallerMessage(mode, x) # CallerMessage(mode, y)

---------------------------------------------------------------------------
(* C15: what ffmpeg makes of the options _create_reel builds.  -vf gives   *)
(* the filter chain of the output's video stream; a -map of a stream       *)
(* specifier takes that input stream, through the -vf chain if there is    *)
(* one; a -map of a [label] takes the output pad of the -filter_complex    *)
(* graph that carries the label.                                           *)

\* the link label a -map argument names, "" for a stream specifier
MapLabel(m) ==
    CASE m = "[vout]" -> "vout"
      [] m = "[aout]" -> "aout"
      [] OTHER -> ""

FilterNames(chain) == [i \in 1 .. Len(chain) |-> chain[i].name]

HasOut(f, label) == \E k \in 1 .. Len(f.outs) : f.outs[k] = label

\* the video stream of the output: the input stream it comes from and the
\* filters it went through
MappedVideo(cmd) ==
    LET m == cmd.maps[1]
        labelled == { c \in 1 .. Len(cmd.graph) :
                        \E i \in 1 .. Len(cmd.graph[c]) : HasOut(cmd.graph[c][i], MapLabel(m)) }
    IN  IF cmd.fopt = "-vf"
        THEN [stream |-> m, filters |-> FilterNames(cmd.graph[1])]
        ELSE IF MapLabel(m) # "" /\ labelled # {}
        THEN LET chain == cmd.graph[CHOOSE c \in labelled : TRUE]
                 last == CHOOSE i \in 1 .. Len(chain) : HasOut(chain[i], MapLabel(m))
             IN  [stream |-> IF Len(chain[1].ins) = 1 THEN chain[1].ins[1] ELSE "",
                  filters |-> FilterNames(SubSeq(chain, 1, last))]
        ELSE [stream |-> m, filters |-> <<>>]

\* the manifest's video through scale and pad
ScaledAndPadded == [stream |-> "0:v", filters |-> <<"scale", "pad">>]

\* C15: in each of the four cases (narration and music, narration only, music
\* only, neither) and in both modes the video stream mapped into the output is
\* the output of the scale+pad filter chain, never the unfiltered input video
\* stream 0:v.
MappedVideoIsScaledAndPadded ==
    /\ \A mode \in Modes, has_voiceover \in BOOLEAN, has_music \in BOOLEAN :
          MappedVideo(ReelCommand(mode, has_voiceover, has_music)) = ScaledAndPadded
    /\ \A i \in 1 .. Len(events) :
          events[i].kind = "render" => MappedVideo(events[i].cmd) = ScaledAndPadded

---------------------------------------------------------------------------
(* C16: how long the render's output lasts.  In this system fs holds the   *)
(* durations of the three inputs in the job directory (0: the file is not  *)
(* there), store the durations of the mixed audio and of the output, run   *)
(* the mode and the position, events the render command.                   *)

\* the input a stream specifier names, 0 for a link label
StreamIndex(link) ==
    CASE link = "0:v" -> 1
      [] link = "1:a" -> 2
      [] link = "2:a" -> 3
      [] OTHER -> 0

\* the duration option of amix; ffmpeg's default is longest
AmixDuration(args) ==
    CASE args = "inputs=2:duration=first" -> "first"
      [] args = "inputs=2:duration=shortest" -> "shortest"
      [] OTHER -> "longest"

Min2(a, b) == IF a <= b THEN a ELSE b
Max2(a, b) == IF a >= b THEN a ELSE b

\* amix of two inputs
Amix(policy, d1, d2) ==
    CASE policy = "first" -> d1
      [] policy = "shortest" -> Min2(d1, d2)
      [] OTHER -> Max2(d1, d2)

\* how long the stream on a link of the graph lasts: an input stream lasts as
\* its file; scale, pad, aformat and volume keep the duration of what they are
\* fed, the nearest labelled input before them in their chain; amix follows
\* its duration option.  durs are the durations of the command's inputs.
RECURSIVE LinkDuration(_, _, _)
LinkDuration(cmd, link, durs) ==
    IF StreamIndex(link) # 0 THEN durs[StreamIndex(link)]
    ELSE
      LET c == CHOOSE c \in 1 .. Len(cmd.graph) :
                  \E i \in 1 .. Len(cmd.graph[c]) : HasOut(cmd.graph[c][i], link)
          chain == cmd.graph[c]
          i == CHOOSE i \in 1 .. Len(chain) : HasOut(chain[i], link)
          fed == CHOOSE k \in 1 .. i :
                    /\ chain[k].ins # <<>>
                    /\ \A j \in k + 1 .. i : chain[j].ins = <<>>
      IN  IF chain[i].name = "amix"
          THEN Amix(AmixDuration(chain[i].args),
                    LinkDuration(cmd, chain[i].ins[1], durs),
                    LinkDuration(cmd, chain[i].ins[2], durs))
          ELSE LinkDuration(cmd, chain[fed].ins[1], durs)

\* how long a mapped stream lasts
MappedDuration(cmd, m, durs) ==
    LinkDuration(cmd, IF MapLabel(m) # "" THEN MapLabel(m) ELSE m, durs)

\* how long the output lasts: with -shortest as its shortest stream, without
\* as its longest
OutputDuration(cmd, durs) ==
    LET ds == { MappedDuration(cmd, cmd.maps[k], durs) : k \in 1 .. Len(cmd.maps) }
        shortest == \E k \in 1 .. Len(cmd.enc) : cmd.enc[k] = "-shortest"
    IN  IF shortest THEN CHOOSE d \in ds : \A x \in ds : d <= x
        ELSE CHOOSE d \in ds : \A x \in ds : d >= x

NoDurations == [reel |-> 0, mix |-> 0]

InitDurations ==
    /\ fs \in [input : 1 .. MaxDuration, audio : 0 .. MaxDuration, music : 0 .. MaxDuration]
    /\ store = NoDurations
    /\ env = NoEnv
    /\ run = [mode |-> "sync", pc |-> "reel"]
    /\ events = <<>>
    /\ admitted = JOB_ID

\* _create_reel builds its command from the two existence checks and ffmpeg
\* renders the reel
RenderDurations ==
    /\ run.pc = "reel"
    /\ \E mode \in Modes :
         LET has_voiceover == fs.audio > 0
             has_music == fs.music > 0
             command == ReelCommand(mode, has_voiceover, has_music)
             durs == <<fs.input>> \o (IF has_voiceover THEN <<fs.audio>> ELSE <<>>)
                                  \o (IF has_music THEN <<fs.music>> ELSE <<>>)
         IN  /\ store' = [reel |-> OutputDuration(command, durs),
                          mix |-> IF has_voiceover /\ has_music
                                  THEN LinkDuration(command, "aout", durs) ELSE 0]
             /\ events' = <<[Ev EXCEPT !.kind = "render", !.cmd = command, !.result = "ok"]>>
             /\ run' = [mode |-> mode, pc |-> "done"]
    /\ UNCHANGED <<fs, env, admitted>>

NextDurations ==
    \/ RenderDurations

SpecDurations == InitDurations /\ [][NextDurations]_vars

\* C16: in the narration-plus-music case, for all durations V of the video, N
\* of the narration and M of the music, the mixed audio lasts min(N, M) and the
\* output lasts min(V, min(N, M)); in every case with an audio input the output
\* never lasts longer than the shortest input present.
OutputLastsAsTheShortestInput ==
    run.pc = "done" =>
        /\ (fs.audio > 0 /\ fs.music > 0) =>
              /\ store.mix = Min2(fs.audio, fs.music)
              /\ store.reel = Min2(fs.input, Min2(fs.audio, fs.music))
        /\ (fs.audio > 0 \/ fs.music > 0) =>
              /\ store.reel <= fs.input
              /\ fs.audio > 0 => store.reel <= fs.audio
              /\ fs.music > 0 => store.reel <= fs.music

---------------------------------------------------------------------------
(* C17 *)

\* C17: the voice id passed to the synthesizer is the fixed default whenever
\* the voice-id file is absent or holds no voice id (it is empty or only
\* whitespace), and the stripped content of the file otherwise.  An empty
\* voice id is never passed.
VoiceIdIsDefaultOrStripped ==
    \A i \in 1 .. Len(events) :
        events[i].kind = "tts" =>
            /\ events[i].voice =
                  (IF ~admitted.fs.voice.present \/ StripVoice(admitted.fs.voice) = ""
                   THEN DEFAULT_VOICE_ID
                   ELSE StripVoice(admitted.fs.voice))
            /\ events[i].voice # ""

---------------------------------------------------------------------------
(* C18 *)

\* the links the command takes streams from: the input labels of its filters
\* and its -map arguments
LinksRead(cmd) ==
    UNION { UNION { { cmd.graph[c][i].ins[k] : k \in 1 .. Len(cmd.graph[c][i].ins) } :
                      i \in 1 .. Len(cmd.graph[c]) } :
              c \in 1 .. Len(cmd.graph) }
      \cup { (IF MapLabel(cmd.maps[k]) # "" THEN MapLabel(cmd.maps[k]) ELSE cmd.maps[k]) :
               k \in 1 .. Len(cmd.maps) }

\* the links the filters of the graph put out
LinksMade(cmd) ==
    UNION { UNION { { cmd.graph[c][i].outs[k] : k \in 1 .. Len(cmd.graph[c][i].outs) } :
                      i \in 1 .. Len(cmd.graph[c]) } :
              c \in 1 .. Len(cmd.graph) }

\* the stream specifiers of the command: the links that no filter puts out
StreamsRead(cmd) == LinksRead(cmd) \ LinksMade(cmd)

\* the input file a stream specifier of the command names
InputOf(cmd, s) == cmd.inputs[StreamIndex(s)]

\* every stream specifier names an input of the command, and the intended one
IndicesOfPlan(cmd, hasNarration, hasMusic) ==
    /\ \A s \in StreamsRead(cmd) : StreamIndex(s) \in 1 .. Len(cmd.inputs)
    /\ StreamsRead(cmd) = {"0:v"} \cup (IF hasNarration \/ hasMusic THEN {"1:a"} ELSE {})
                                  \cup (IF hasNarration /\ hasMusic THEN {"2:a"} ELSE {})
    /\ InputOf(cmd, "0:v") = JobFile("input.txt")
    /\ hasNarration => InputOf(cmd, "1:a") = JobFile("audio.mp3")
    /\ (hasNarration /\ hasMusic) => InputOf(cmd, "2:a") = JobFile("music.*")
    /\ (~hasNarration /\ hasMusic) => InputOf(cmd, "1:a") = JobFile("music.*")

\* C18: in every one of the four cases each input index referenced by the
\* filter graph or by a -map refers to an input that was added to the command,
\* and to the intended one: index 0 the manifest, the narration index 1 when
\* present, the music index 2 with narration and 1 without; no index is equal
\* to or larger than the number of inputs.
InputIndicesReferToTheirInputs ==
    /\ \A mode \in Modes, hasNarration \in BOOLEAN, hasMusic \in BOOLEAN :
          IndicesOfPlan(ReelCommand(mode, hasNarration, hasMusic), hasNarration, hasMusic)
    /\ \A i \in 1 .. Len(events) :
          events[i].kind = "render" =>
              /\ \A s \in StreamsRead(events[i].cmd) :
                    StreamIndex(s) \in 1 .. Len(events[i].cmd.inputs)
              /\ fs.exists => IndicesOfPlan(events[i].cmd, fs.audio.present, fs.music)

\* a render with music and no narration: the music is input 1
MusicIsInputOneWitness ==
    /\ fs.exists /\ ~fs.audio.present /\ fs.music
    /\ \E i \in 1 .. Len(events) :
          /\ events[i].kind = "render"
          /\ events[i].result = "ok"
          /\ Len(events[i].cmd.inputs) = 2
          /\ "1:a" \in StreamsRead(events[i].cmd)
          /\ InputOf(events[i].cmd, "1:a") = JobFile("music.*")

---------------------------------------------------------------------------
(* C19 *)

\* C19: over any sequence of runs on a job directory (retries and runs whose
\* synthesis failed included) the render includes the narration input only if
\* the audio stage of that same run completed a successful synthesis; a
\* truncated or left-over audio.mp3 is never fed to the render.
NarrationOnlyFromThisRunsSynthesis ==
    \A i \in 1 .. Len(events) :
        (events[i].kind = "render"
            /\ \E k \in 1 .. Len(events[i].cmd.inputs) :
                  events[i].cmd.inputs[k] = JobFile("audio.mp3")) =>
            /\ \E j \in 1 .. i - 1 : events[j].kind = "tts" /\ events[j].result = "ok"
            /\ store.reel.cur =>
                  /\ store.reel.narration.present
                  /\ store.reel.narration.complete
                  /\ store.reel.narration.cur

====
